---------------------------- MODULE Spec2Model ----------------------------
(***************************************************************************)
(* Model of the prescriptive deck code engine (domain/code_engine.py), its *)
(* data model (domain/models.py) and its two consumers, the pricing        *)
(* calculator (services/pricing.py) and the permit drawing generator       *)
(* (services/permit_pdf.py).                                               *)
(*                                                                         *)
(* Numbers.  The code computes in floating-point feet.  The model computes *)
(* exactly, in integers:                                                   *)
(*   - SiteInput fields are whole feet (psf, inches where the code's are); *)
(*   - horizontal lengths (x, y, spans, cantilever) are inches;            *)
(*   - elevations (z, post height) and lumber cross-sections are quarter   *)
(*     inches, the grid of LUMBER_SPECS (5.5, 7.25, 9.25, 11.25 in);       *)
(*   - tabulated maximum spans are hundredths of a foot (13.83 -> 1383).   *)
(* Every division the code performs on these inputs is exact on that grid, *)
(* and comparisons between units are made by cross-multiplication.         *)
(* Names ending in _in, _q, _cft say the unit where the code's name ends   *)
(* in _ft.                                                                 *)
(*                                                                         *)
(* Specifications.  Spec: one invocation of generate_structure, block by   *)
(* block, and the two consumers of its result.  SpecInterleaved: two       *)
(* invocations whose blocks interleave.  SpecSelectors: Spec, or one       *)
(* direct call of a selector.                                              *)
(***************************************************************************)
EXTENDS Integers, Sequences, FiniteSets, TLC

VARIABLES
  pc,          \* position of the generate_structure invocation
  site_input,  \* the SiteInput the invocation was given (<<>>: not called yet)
  structure,   \* the DeckStructure being populated / returned (<<>>: none yet)
  frame,       \* the invocation's bound local variables (name -> value)
  raised,      \* the exception that escaped generate_structure ("none")
  quote,       \* what calculate_quote returned for the structure (<<>>: not called)
  pdf,         \* what PermitPDFGenerator.generate wrote (<<>>: not called)
  parked,      \* the invocation that is not running: its id and its own
               \* pc, site_input, structure, frame and raised
  tables,      \* the module-level dicts LUMBER_SPECS, JOIST_SPANS, BEAM_SPANS
               \* and POST_HEIGHT_LIMITS, which every invocation reads
  probe        \* a direct call of one selector: its arguments and result
               \* (<<>>: none made)

vars == <<pc, site_input, structure, frame, raised, quote, pdf,
          parked, tables, probe>>

----------------------------------------------------------------------------
(* Bounds of the inputs explored.                                          *)

\* widths are 1 .. MaxWidthFt feet
MaxWidthFt == 18
\* depths are DepthStepFt, 2*DepthStepFt, .. MaxDepthSteps*DepthStepFt feet
MaxDepthSteps == 21
\* heights are 1, 1+HeightStepFt, .. feet, MaxHeightSteps of them
MaxHeightSteps == 8
\* soil bearing capacities are SoilStepPsf * (1 .. MaxSoilSteps)
MaxSoilSteps == 2

DepthStepFt == 2
HeightStepFt == 3
SoilStepPsf == 1500

----------------------------------------------------------------------------
(* Units and rounding.                                                     *)

FtToIn(ft) == 12 * ft
FtToQ(ft) == 48 * ft
InToQ(inches) == 4 * inches

Min(a, b) == IF a <= b THEN a ELSE b
Max(a, b) == IF a >= b THEN a ELSE b

\* ceil(num / den) and floor(num / den) for den > 0 (math.ceil, math.floor)
Ceil(num, den) == -((-num) \div den)
Floor(num, den) == num \div den

\* round(num / den) to an integer, ties to even: what Python's fixed-point
\* formatting does to a value that is exact in binary.
RoundHalfEven(num, den) ==
  LET q == num \div den
      r == num % den
  IN  IF 2 * r < den THEN q
      ELSE IF 2 * r > den THEN q + 1
      ELSE IF q % 2 = 0 THEN q ELSE q + 1

\* f"{x:.1f}" of x = num/den feet: the tenths of a foot printed
Fmt1(num, den) == RoundHalfEven(10 * num, den)
\* f"{x:.0f}"
Fmt0(num, den) == RoundHalfEven(num, den)

\* dict.get(key, default)
DictGet(d, key, default) == IF key \in DOMAIN d THEN d[key] ELSE default

----------------------------------------------------------------------------
(* domain/models.py                                                        *)

LedgerAttachment == {"direct", "standoff", "freestanding"}
FREESTANDING == "freestanding"

\* LumberSpec(nominal, width_in, height_in), in quarter inches
LumberSpec(nominal, width_q, height_q) ==
  [nominal |-> nominal, width_q |-> width_q, height_q |-> height_q]

LUMBER_SPECS ==
  ("2x6"  :> LumberSpec("2x6", 6, 22))  @@
  ("2x8"  :> LumberSpec("2x8", 6, 29))  @@
  ("2x10" :> LumberSpec("2x10", 6, 37)) @@
  ("2x12" :> LumberSpec("2x12", 6, 45)) @@
  ("4x4"  :> LumberSpec("4x4", 14, 14)) @@
  ("4x6"  :> LumberSpec("4x6", 14, 22)) @@
  ("4x8"  :> LumberSpec("4x8", 14, 29)) @@
  ("4x10" :> LumberSpec("4x10", 14, 37)) @@
  ("4x12" :> LumberSpec("4x12", 14, 45)) @@
  ("6x6"  :> LumberSpec("6x6", 22, 22))

DefaultFrostDepthIn == 18

\* SiteInput: the fields the engine and its consumers read.  The customer
\* selections keep their defaults (trex decking, no railing, no stairs).
SiteInput(width_ft, depth_ft, height_ft, ledger_attachment, soil_bearing_psf) ==
  [width_ft |-> width_ft, depth_ft |-> depth_ft, height_ft |-> height_ft,
   ledger_attachment |-> ledger_attachment,
   soil_bearing_psf |-> soil_bearing_psf,
   frost_depth_in |-> DefaultFrostDepthIn,
   decking_type |-> "trex", railing_type |-> "none", railing_lf |-> 0,
   stair_count |-> 0]

Footing(x_in, y_in, diameter_in, depth_in) ==
  [x_in |-> x_in, y_in |-> y_in, diameter_in |-> diameter_in, depth_in |-> depth_in]

Post(x_in, y_in, height_q, lumber) ==
  [x_in |-> x_in, y_in |-> y_in, height_q |-> height_q, lumber |-> lumber]

Beam(x_start_in, x_end_in, y_in, z_q, lumber, ply) ==
  [x_start_in |-> x_start_in, x_end_in |-> x_end_in, y_in |-> y_in,
   z_q |-> z_q, lumber |-> lumber, ply |-> ply]

Joist(x_in, y_start_in, y_end_in, z_q, lumber) ==
  [x_in |-> x_in, y_start_in |-> y_start_in, y_end_in |-> y_end_in,
   z_q |-> z_q, lumber |-> lumber]

\* Optional[...] is a sequence of length 0 (None) or 1.
None == <<>>
Some(v) == <<v>>

\* DeckStructure with notes = [] as a class-level default: the list is one
\* object, shared by every instance, and holds what earlier ones appended
DeckStructureSharedNotes(input) ==
  [input |-> input,
   footings |-> <<>>, posts |-> <<>>, beams |-> <<>>, joists |-> <<>>,
   ledger |-> None, rim_joists |-> <<>>,
   joist_size |-> "", joist_spacing_in |-> 16,
   beam_size |-> "", beam_ply |-> 2,
   post_size |-> "", footing_diameter_in |-> 12,
   compliant |-> TRUE,
   notes |-> IF parked.structure # None THEN parked.structure[1].notes ELSE <<>>,
   errors |-> <<>>]

\* DeckStructure(input=site_input): every other field at its default
DeckStructure(input) ==
  [input |-> input,
   footings |-> <<>>, posts |-> <<>>, beams |-> <<>>, joists |-> <<>>,
   ledger |-> None, rim_joists |-> <<>>,
   joist_size |-> "", joist_spacing_in |-> 16,
   beam_size |-> "", beam_ply |-> 2,
   post_size |-> "", footing_diameter_in |-> 12,
   compliant |-> TRUE, notes |-> <<>>, errors |-> <<>>]

----------------------------------------------------------------------------
(* domain/code_engine.py: tables                                           *)

\* (nominal_size, spacing_in) -> max span, hundredths of a foot
JOIST_SPANS ==
  (<<"2x6", 12>>  :> 1050) @@ (<<"2x6", 16>>  :> 950)  @@ (<<"2x6", 24>>  :> 800)  @@
  (<<"2x8", 12>>  :> 1383) @@ (<<"2x8", 16>>  :> 1250) @@ (<<"2x8", 24>>  :> 1050) @@
  (<<"2x10", 12>> :> 1767) @@ (<<"2x10", 16>> :> 1600) @@ (<<"2x10", 24>> :> 1350) @@
  (<<"2x12", 12>> :> 2150) @@ (<<"2x12", 16>> :> 1950) @@ (<<"2x12", 24>> :> 1650)

\* (beam_config, joist_span_category) -> max beam span, hundredths of a foot
BEAM_SPANS ==
  (<<"2-2x6", "6">>  :> 550)  @@ (<<"2-2x6", "8">>  :> 450) @@
  (<<"2-2x6", "10">> :> 400)  @@ (<<"2-2x6", "12">> :> 350) @@
  (<<"2-2x8", "6">>  :> 700)  @@ (<<"2-2x8", "8">>  :> 600) @@
  (<<"2-2x8", "10">> :> 550)  @@ (<<"2-2x8", "12">> :> 500) @@
  (<<"2-2x10", "6">> :> 900)  @@ (<<"2-2x10", "8">> :> 800) @@
  (<<"2-2x10", "10">> :> 700) @@ (<<"2-2x10", "12">> :> 650) @@
  (<<"2-2x12", "6">> :> 1100) @@ (<<"2-2x12", "8">> :> 950) @@
  (<<"2-2x12", "10">> :> 850) @@ (<<"2-2x12", "12">> :> 750) @@
  (<<"4x6", "6">>  :> 550)  @@ (<<"4x6", "8">>  :> 450) @@
  (<<"4x6", "10">> :> 400)  @@ (<<"4x6", "12">> :> 350) @@
  (<<"4x8", "6">>  :> 700)  @@ (<<"4x8", "8">>  :> 600) @@
  (<<"4x8", "10">> :> 550)  @@ (<<"4x8", "12">> :> 500) @@
  (<<"4x10", "6">> :> 900)  @@ (<<"4x10", "8">> :> 800) @@
  (<<"4x10", "10">> :> 700) @@ (<<"4x10", "12">> :> 650) @@
  (<<"4x12", "6">> :> 1100) @@ (<<"4x12", "8">> :> 950) @@
  (<<"4x12", "10">> :> 850) @@ (<<"4x12", "12">> :> 750)

\* post size -> height limit, feet
POST_HEIGHT_LIMITS == ("4x4" :> 8) @@ ("4x6" :> 14) @@ ("6x6" :> 20)

DEAD_LOAD_PSF == 15
LIVE_LOAD_PSF == 40
TOTAL_LOAD_PSF == DEAD_LOAD_PSF + LIVE_LOAD_PSF

\* MAX_CANTILEVER_RATIO = 0.25, as a percentage
MAX_CANTILEVER_RATIO_PCT == 25

\* math.pi as a fraction (355/113 = 3.14159292..)
PiNum == 355
PiDen == 113


----------------------------------------------------------------------------
(* domain/code_engine.py: selectors                                        *)
(* A selector returns [ok |-> TRUE, value |-> v], or [ok |-> FALSE,        *)
(* error |-> e] where the code raises ValueError(e).                       *)

Return(v) == [ok |-> TRUE, value |-> v]
RaiseValueError(e) == [ok |-> FALSE, error |-> e]

\* SpanFits with the comparison the wrong way round
SpanFitsInverted(max_span_cft, span_in) == max_span_cft * 12 <= span_in * 100

\* max_span >= span_ft, max_span in hundredths of a foot, span in inches
SpanFits(max_span_cft, span_in) == max_span_cft * 12 >= span_in * 100

\* _get_joist_span_category with < for <=: a span on a boundary falls into
\* the next category
_get_joist_span_category_strict(joist_span_in) ==
  IF joist_span_in < FtToIn(6) THEN "6"
  ELSE IF joist_span_in < FtToIn(8) THEN "8"
  ELSE IF joist_span_in < FtToIn(10) THEN "10"
  ELSE "12"

_get_joist_span_category(joist_span_in) ==
  IF joist_span_in <= FtToIn(6) THEN "6"
  ELSE IF joist_span_in <= FtToIn(8) THEN "8"
  ELSE IF joist_span_in <= FtToIn(10) THEN "10"
  ELSE "12"

JoistSizes == <<"2x6", "2x8", "2x10", "2x12">>

\* the first index i >= from of sizes with Fits(sizes[i]), or 0
RECURSIVE FirstFit(_, _, _)
FirstFit(fits, n, from) ==
  IF from > n THEN 0
  ELSE IF fits[from] THEN from
  ELSE FirstFit(fits, n, from + 1)

\* _select_joist_size with the spacing argument ignored: always the 16 in
\* on center column of the table
_select_joist_size_at_16(span_in, spacing_in) ==
  LET fits == [i \in 1..Len(JoistSizes) |->
                 SpanFits(DictGet(tables.JOIST_SPANS, <<JoistSizes[i], 16>>, 0), span_in)]
      i == FirstFit(fits, Len(JoistSizes), 1)
  IN  IF i # 0 THEN Return(JoistSizes[i])
      ELSE RaiseValueError(
             [kind |-> "joist_span_exceeded",
              span_tenths |-> Fmt1(span_in, 12),
              spacing_in |-> spacing_in,
              max_tenths |-> Fmt1(DictGet(tables.JOIST_SPANS, <<"2x12", 16>>, 0), 100)])

_select_joist_size(span_in, spacing_in) ==
  LET fits == [i \in 1..Len(JoistSizes) |->
                 SpanFits(DictGet(tables.JOIST_SPANS, <<JoistSizes[i], spacing_in>>, 0), span_in)]
      i == FirstFit(fits, Len(JoistSizes), 1)
  IN  IF i # 0 THEN Return(JoistSizes[i])
      ELSE RaiseValueError(
             [kind |-> "joist_span_exceeded",
              span_tenths |-> Fmt1(span_in, 12),
              spacing_in |-> spacing_in,
              max_tenths |-> Fmt1(DictGet(tables.JOIST_SPANS, <<"2x12", spacing_in>>, 0), 100)])

_select_beam_size(beam_span_in, joist_span_in) ==
  LET joist_cat == _get_joist_span_category(joist_span_in)
      fits == [i \in 1..Len(JoistSizes) |->
                 SpanFits(DictGet(tables.BEAM_SPANS, <<"2-" \o JoistSizes[i], joist_cat>>, 0),
                          beam_span_in)]
      i == FirstFit(fits, Len(JoistSizes), 1)
  IN  IF i # 0 THEN Return(<<JoistSizes[i], 2>>)
      ELSE RaiseValueError(
             [kind |-> "beam_span_exceeded",
              span_tenths |-> Fmt1(beam_span_in, 12),
              joist_cat |-> joist_cat])

PostSizes == <<"4x4", "4x6", "6x6">>

\* _select_post_size with > for >=: a post exactly at a limit gets the next
\* size
_select_post_size_strict(height_q) ==
  LET fits == [i \in 1..Len(PostSizes) |->
                 FtToQ(tables.POST_HEIGHT_LIMITS[PostSizes[i]]) > height_q]
      i == FirstFit(fits, Len(PostSizes), 1)
  IN  IF i # 0 THEN PostSizes[i] ELSE "6x6"

_select_post_size(height_q) ==
  LET fits == [i \in 1..Len(PostSizes) |->
                 FtToQ(tables.POST_HEIGHT_LIMITS[PostSizes[i]]) >= height_q]
      i == FirstFit(fits, Len(PostSizes), 1)
  IN  IF i # 0 THEN PostSizes[i] ELSE "6x6"

StandardSizes == <<12, 14, 16, 18, 20, 24>>

\* size >= required_diameter, where required_diameter = 2 * sqrt(A / pi) and
\* A = tributary area * TOTAL_LOAD_PSF / soil_bearing_psf * 144 square inches,
\* the tributary area given in square inches (area_sqin / 144 square feet):
\*   size >= 2 sqrt(A/pi)  <=>  size^2 * pi >= 4 A        (size > 0, A >= 0)
\*                         <=>  size^2 * pi * soil >= 4 * area_sqin * TOTAL_LOAD_PSF
\* CoversRequiredDiameter for the live load alone, the dead load forgotten
CoversRequiredDiameterLiveLoad(size, tributary_area_sqin, soil_bearing_psf) ==
  size * size * soil_bearing_psf * PiNum
    >= 4 * LIVE_LOAD_PSF * tributary_area_sqin * PiDen

CoversRequiredDiameter(size, tributary_area_sqin, soil_bearing_psf) ==
  size * size * soil_bearing_psf * PiNum
    >= 4 * TOTAL_LOAD_PSF * tributary_area_sqin * PiDen

\* _calculate_footing_diameter rounding down: the standard size before the
\* first one that covers the required diameter
_calculate_footing_diameter_down(tributary_area_sqin, soil_bearing_psf) ==
  LET fits == [i \in 1..Len(StandardSizes) |->
                 CoversRequiredDiameter(StandardSizes[i], tributary_area_sqin,
                                        soil_bearing_psf)]
      i == FirstFit(fits, Len(StandardSizes), 1)
  IN  IF i # 0 THEN StandardSizes[Max(1, i - 1)] ELSE 24

_calculate_footing_diameter(tributary_area_sqin, soil_bearing_psf) ==
  LET fits == [i \in 1..Len(StandardSizes) |->
                 CoversRequiredDiameter(StandardSizes[i], tributary_area_sqin,
                                        soil_bearing_psf)]
      i == FirstFit(fits, Len(StandardSizes), 1)
  IN  IF i # 0 THEN StandardSizes[i] ELSE 24


----------------------------------------------------------------------------
(* domain/code_engine.py: generate_structure, block by block               *)

\* the inputs explored
Widths == 1..MaxWidthFt
Depths == {DepthStepFt * k : k \in 1..MaxDepthSteps}
Heights == {1 + HeightStepFt * (k - 1) : k \in 1..MaxHeightSteps}
Soils == {SoilStepPsf * k : k \in 1..MaxSoilSteps}

SiteInputs ==
  {SiteInput(w, d, h, a, s) :
     w \in Widths, d \in Depths, h \in Heights, a \in LedgerAttachment, s \in Soils}

\* binding a local variable of the invocation
Bind(fr, name, value) == (name :> value) @@ fr
Bound(name) == name \in DOMAIN frame

\* CantileverPolicy with the 25% cap forgotten: always the default 2 ft
CantileverPolicyFixed(depth_in, ledger_attachment) ==
  IF ledger_attachment = FREESTANDING
  THEN [cantilever_in |-> 0, joist_span_in |-> depth_in \div 2, beam_count |-> 2]
  ELSE [cantilever_in |-> FtToIn(2), joist_span_in |-> depth_in - FtToIn(2),
        beam_count |-> 1]

\* lines 155-166: cantilever, joist span and beam count by attachment mode
CantileverPolicy(depth_in, ledger_attachment) ==
  IF ledger_attachment = FREESTANDING
  THEN [cantilever_in |-> 0,
        joist_span_in |-> depth_in \div 2,
        beam_count |-> 2]
  ELSE LET max_cantilever == (depth_in * MAX_CANTILEVER_RATIO_PCT) \div 100
           cantilever == Min(FtToIn(2), max_cantilever)
       IN  [cantilever_in |-> cantilever,
            joist_span_in |-> depth_in - cantilever,
            beam_count |-> 1]

\* RecordError with the message dropped
RecordErrorNoMessage(s, e) == [s EXCEPT !.compliant = FALSE]

\* RecordError with compliant = False forgotten
RecordErrorKeepCompliant(s, e) == [s EXCEPT !.errors = Append(@, e)]

\* structure.errors.append(e); structure.compliant = False
RecordError(s, e) ==
  [s EXCEPT !.errors = Append(@, e), !.compliant = FALSE]

\* HandleValueError without the try/except: the ValueError propagates
HandleValueErrorPropagate(s, e) ==
  [structure |-> s, raised |-> "ValueError", pc |-> "raised"]

\* except ValueError as e: record the message and return the structure
HandleValueError(s, e) ==
  [structure |-> RecordError(s, e), raised |-> "none", pc |-> "returned"]

\* an invocation that has not been called yet
IdleContext(id) ==
  [id |-> id, pc |-> "idle", site_input |-> None, structure |-> None,
   frame |-> <<>>, raised |-> "none"]

\* the module-level dicts as the import of the two modules leaves them
ModuleTables ==
  [LUMBER_SPECS |-> LUMBER_SPECS, JOIST_SPANS |-> JOIST_SPANS,
   BEAM_SPANS |-> BEAM_SPANS, POST_HEIGHT_LIMITS |-> POST_HEIGHT_LIMITS]

Init ==
  /\ pc = "idle"
  /\ site_input = None
  /\ structure = None
  /\ frame = <<>>
  /\ raised = "none"
  /\ quote = None
  /\ pdf = None
  /\ parked = IdleContext(2)
  /\ tables = ModuleTables
  /\ probe = None

\* lines 145-166, for the caller's argument si
Invoke(si) ==
  /\ site_input' = Some(si)
  /\ LET depth_in == FtToIn(si.depth_ft)
         pol == CantileverPolicy(depth_in, si.ledger_attachment)
     IN  /\ structure' = Some([DeckStructure(si) EXCEPT !.joist_spacing_in = 16])
         /\ frame' = [width_in |-> FtToIn(si.width_ft),
                      depth_in |-> depth_in,
                      height_q |-> FtToQ(si.height_ft),
                      joist_spacing_in |-> 16,
                      cantilever_in |-> pol.cantilever_in,
                      joist_span_in |-> pol.joist_span_in,
                      beam_count |-> pol.beam_count]
  /\ pc' = "validate_cantilever"
  /\ UNCHANGED <<raised, quote, pdf, parked, tables, probe>>

\* a caller invokes generate_structure on some SiteInput
Call ==
  /\ pc = "idle"
  /\ \E si \in SiteInputs : Invoke(si)

\* lines 168-175
ValidateCantilever ==
  /\ pc = "validate_cantilever"
  /\ IF frame.cantilever_in * 100 > frame.depth_in * MAX_CANTILEVER_RATIO_PCT
     THEN /\ structure' = Some(RecordError(structure[1],
                 [kind |-> "cantilever_exceeded",
                  cantilever_tenths |-> Fmt1(frame.cantilever_in, 12),
                  max_tenths |-> Fmt1(frame.depth_in * MAX_CANTILEVER_RATIO_PCT, 1200),
                  depth_tenths |-> Fmt1(frame.depth_in, 12)]))
          /\ pc' = "returned"
     ELSE /\ pc' = "select_joist"
          /\ UNCHANGED structure
  /\ UNCHANGED <<site_input, frame, raised, quote, pdf, parked, tables, probe>>

\* lines 177-187
SelectJoist ==
  /\ pc = "select_joist"
  /\ LET r == _select_joist_size(frame.joist_span_in, frame.joist_spacing_in)
     IN  IF r.ok
         THEN IF r.value \in DOMAIN tables.LUMBER_SPECS
              THEN /\ structure' = Some([structure[1] EXCEPT
                        !.joist_size = r.value,
                        !.notes = Append(@, [kind |-> "joists", size |-> r.value,
                                             spacing_in |-> frame.joist_spacing_in,
                                             span_tenths |-> Fmt1(frame.joist_span_in, 12)])])
                   /\ frame' = Bind(Bind(frame, "joist_size", r.value),
                                    "joist_lumber", tables.LUMBER_SPECS[r.value])
                   /\ pc' = "select_beam"
                   /\ UNCHANGED raised
              ELSE /\ pc' = "raised"
                   /\ raised' = "KeyError"
                   /\ UNCHANGED <<structure, frame>>
         ELSE LET h == HandleValueError(structure[1], r.error)
              IN  /\ structure' = Some(h.structure)
                  /\ raised' = h.raised
                  /\ pc' = h.pc
                  /\ UNCHANGED frame
  /\ UNCHANGED <<site_input, quote, pdf, parked, tables, probe>>

\* BeamLayout with the post count one short: ceil(width / 8), not + 1
BeamLayoutOnePostShort(fr) ==
  LET joist_top_z == fr.height_q - InToQ(1)
      joist_bottom_z == joist_top_z - fr.joist_lumber.height_q
      num_posts == Max(2, Ceil(fr.width_in, FtToIn(8)))
  IN  [joist_top_z |-> joist_top_z,
       joist_bottom_z |-> joist_bottom_z,
       beam_top_z |-> joist_bottom_z,
       num_posts |-> num_posts,
       actual_beam_span_in |-> fr.width_in \div (num_posts - 1)]

\* lines 189-199: elevations of the joists, post count and beam span
BeamLayout(fr) ==
  LET decking_thickness_q == InToQ(1)
      joist_top_z == fr.height_q - decking_thickness_q
      joist_bottom_z == joist_top_z - fr.joist_lumber.height_q
      target_beam_span_in == FtToIn(8)
      num_posts == Max(2, Ceil(fr.width_in, target_beam_span_in) + 1)
  IN  [joist_top_z |-> joist_top_z,
       joist_bottom_z |-> joist_bottom_z,
       beam_top_z |-> joist_bottom_z,
       num_posts |-> num_posts,
       actual_beam_span_in |-> fr.width_in \div (num_posts - 1)]

\* lines 189-215
SelectBeam ==
  /\ pc = "select_beam"
  /\ LET lay == BeamLayout(frame)
         fr1 == lay @@ frame
         r == _select_beam_size(lay.actual_beam_span_in, frame.joist_span_in)
     IN  IF r.ok
         THEN IF r.value[1] \in DOMAIN tables.LUMBER_SPECS
              THEN LET beam_lumber == tables.LUMBER_SPECS[r.value[1]]
                   IN /\ structure' = Some([structure[1] EXCEPT
                           !.beam_size = r.value[1],
                           !.beam_ply = r.value[2],
                           !.notes = Append(@, [kind |-> "beam",
                                                ply |-> r.value[2], size |-> r.value[1],
                                                span_tenths |-> Fmt1(lay.actual_beam_span_in, 12),
                                                num_posts |-> lay.num_posts])])
                      /\ frame' = [beam_lumber_size |-> r.value[1],
                                   beam_ply |-> r.value[2],
                                   beam_lumber |-> beam_lumber,
                                   beam_bottom_z |-> lay.beam_top_z - beam_lumber.height_q]
                                  @@ fr1
                      /\ pc' = "select_post"
                      /\ UNCHANGED raised
              ELSE /\ pc' = "raised"
                   /\ raised' = "KeyError"
                   /\ frame' = fr1
                   /\ UNCHANGED structure
         ELSE LET h == HandleValueError(structure[1], r.error)
              IN  /\ structure' = Some(h.structure)
                  /\ raised' = h.raised
                  /\ pc' = h.pc
                  /\ frame' = fr1
  /\ UNCHANGED <<site_input, quote, pdf, parked, tables, probe>>

\* lines 217-228
SelectPost ==
  /\ pc = "select_post"
  /\ LET post_height_q == frame.beam_bottom_z
         post_size == _select_post_size(post_height_q)
         engineer == post_height_q > FtToQ(DictGet(tables.POST_HEIGHT_LIMITS, post_size, 8))
     IN  /\ structure' = Some([structure[1] EXCEPT
               !.post_size = post_size,
               !.notes = Append(@, [kind |-> "posts", size |-> post_size,
                                    height_tenths |-> Fmt1(post_height_q, 48),
                                    verify_with_engineer |-> engineer])])
         /\ frame' = [post_height_q |-> post_height_q,
                      post_size |-> post_size,
                      post_lumber |-> tables.LUMBER_SPECS[post_size]] @@ frame
  /\ pc' = "footing_size"
  /\ UNCHANGED <<site_input, raised, quote, pdf, parked, tables, probe>>

\* lines 230-237
FootingSize ==
  /\ pc = "footing_size"
  /\ LET tributary_area_sqin == frame.actual_beam_span_in * frame.joist_span_in
         soil == site_input[1].soil_bearing_psf
     IN  IF soil = 0
         THEN /\ pc' = "raised"
              /\ raised' = "ZeroDivisionError"
              /\ frame' = Bind(frame, "tributary_area_sqin", tributary_area_sqin)
              /\ UNCHANGED structure
         ELSE IF tributary_area_sqin * soil < 0
         THEN /\ pc' = "raised"
              /\ raised' = "ValueError"   \* math.sqrt of a negative number
              /\ frame' = Bind(frame, "tributary_area_sqin", tributary_area_sqin)
              /\ UNCHANGED structure
         ELSE LET footing_diameter == _calculate_footing_diameter(tributary_area_sqin, soil)
              IN  /\ structure' = Some([structure[1] EXCEPT
                        !.footing_diameter_in = footing_diameter,
                        !.notes = Append(@, [kind |-> "footings",
                                             diameter_in |-> footing_diameter,
                                             depth_in |-> site_input[1].frost_depth_in,
                                             tributary_sf |-> Fmt0(tributary_area_sqin, 144)])])
                  /\ frame' = [tributary_area_sqin |-> tributary_area_sqin,
                               footing_diameter |-> footing_diameter] @@ frame
                  /\ pc' = "generate_supports"
                  /\ UNCHANGED raised
  /\ UNCHANGED <<site_input, quote, pdf, parked, tables, probe>>


\* BeamYPositions with the freestanding deck carried by one beam at mid-depth
BeamYPositionsCenter(si, fr) ==
  IF si.ledger_attachment = FREESTANDING
  THEN <<fr.depth_in \div 2>>
  ELSE <<fr.depth_in - fr.cantilever_in>>

\* lines 239-243
BeamYPositions(si, fr) ==
  IF si.ledger_attachment = FREESTANDING
  THEN <<fr.depth_in \div 3, (2 * fr.depth_in) \div 3>>
  ELSE <<fr.depth_in - fr.cantilever_in>>

\* the x of post i (0-based) of a row, line 248
PostX(fr, i) == -(fr.width_in \div 2) + i * fr.actual_beam_span_in

\* GenerateFootings with the loops exchanged: post positions outermost,
\* rows innermost
GenerateFootingsByPosition(si, fr, ys) ==
  [k \in 1..(Len(ys) * fr.num_posts) |->
     LET i == (k - 1) \div Len(ys)
         row == ((k - 1) % Len(ys)) + 1
     IN  Footing(PostX(fr, i), ys[row], fr.footing_diameter, si.frost_depth_in)]

\* lines 245-262: the nested loops, rows outermost
GenerateFootings(si, fr, ys) ==
  [k \in 1..(Len(ys) * fr.num_posts) |->
     LET row == ((k - 1) \div fr.num_posts) + 1
         i == (k - 1) % fr.num_posts
     IN  Footing(PostX(fr, i), ys[row], fr.footing_diameter, si.frost_depth_in)]

GeneratePosts(si, fr, ys) ==
  [k \in 1..(Len(ys) * fr.num_posts) |->
     LET row == ((k - 1) \div fr.num_posts) + 1
         i == (k - 1) % fr.num_posts
     IN  Post(PostX(fr, i), ys[row], fr.post_height_q, fr.post_lumber)]

\* lines 264-273
GenerateBeams(fr, ys) ==
  [row \in 1..Len(ys) |->
     Beam(-(fr.width_in \div 2), fr.width_in \div 2, ys[row],
          fr.beam_bottom_z, fr.beam_lumber, fr.beam_ply)]

\* lines 239-273
GenerateSupports ==
  /\ pc = "generate_supports"
  /\ LET si == site_input[1]
         ys == BeamYPositions(si, frame)
     IN  /\ structure' = Some([structure[1] EXCEPT
               !.footings = @ \o GenerateFootings(si, frame, ys),
               !.posts = @ \o GeneratePosts(si, frame, ys),
               !.beams = @ \o GenerateBeams(frame, ys)])
         /\ frame' = Bind(frame, "beam_y_positions", ys)
  /\ pc' = "generate_framing"
  /\ UNCHANGED <<site_input, raised, quote, pdf, parked, tables, probe>>

\* lines 276-277: floor(width / (joist_spacing_in / 12)) + 1
NumJoists(fr) == Floor(fr.width_in, fr.joist_spacing_in) + 1

\* GenerateJoists with the first joist on the left edge, x = -width / 2
GenerateJoistsFromEdge(si, fr) ==
  [k \in 1..NumJoists(fr) |->
     Joist(-(fr.width_in \div 2) + (k - 1) * fr.joist_spacing_in,
           0, fr.depth_in, fr.joist_bottom_z, fr.joist_lumber)]

\* lines 275-290
GenerateJoists(si, fr) ==
  LET num_joists == NumJoists(fr)
      total_joist_width_in == (num_joists - 1) * fr.joist_spacing_in
      joist_start_x == (-total_joist_width_in) \div 2
  IN  [k \in 1..num_joists |->
         Joist(joist_start_x + (k - 1) * fr.joist_spacing_in,
               IF si.ledger_attachment # FREESTANDING THEN 0 ELSE 0,
               fr.depth_in, fr.joist_bottom_z, fr.joist_lumber)]

\* GenerateLedger with the attachment test forgotten
GenerateLedgerAlways(si, fr) ==
  Some([x_start_in |-> -(fr.width_in \div 2),
        x_end_in |-> fr.width_in \div 2,
        y_in |-> 0,
        z_q |-> fr.joist_bottom_z,
        lumber |-> fr.joist_lumber,
        attachment |-> si.ledger_attachment])

\* lines 294-303
GenerateLedger(si, fr) ==
  IF si.ledger_attachment # FREESTANDING
  THEN Some([x_start_in |-> -(fr.width_in \div 2),
             x_end_in |-> fr.width_in \div 2,
             y_in |-> 0,
             z_q |-> fr.joist_bottom_z,
             lumber |-> fr.joist_lumber,
             attachment |-> si.ledger_attachment])
  ELSE None

\* GenerateRimJoists with the outer rim left out
GenerateRimJoistsSides(fr) ==
  << [location |-> "left", x_in |-> -(fr.width_in \div 2),
      y_start_in |-> 0, y_end_in |-> fr.depth_in, lumber |-> fr.joist_lumber],
     [location |-> "right", x_in |-> fr.width_in \div 2,
      y_start_in |-> 0, y_end_in |-> fr.depth_in, lumber |-> fr.joist_lumber] >>

\* lines 305-328
GenerateRimJoists(fr) ==
  << [location |-> "left", x_in |-> -(fr.width_in \div 2),
      y_start_in |-> 0, y_end_in |-> fr.depth_in, lumber |-> fr.joist_lumber],
     [location |-> "right", x_in |-> fr.width_in \div 2,
      y_start_in |-> 0, y_end_in |-> fr.depth_in, lumber |-> fr.joist_lumber],
     [location |-> "outer", x_start_in |-> -(fr.width_in \div 2),
      x_end_in |-> fr.width_in \div 2, y_in |-> fr.depth_in,
      lumber |-> fr.joist_lumber] >>

\* lines 275-330
GenerateFraming ==
  /\ pc = "generate_framing"
  /\ LET si == site_input[1]
         ledger == GenerateLedger(si, frame)
     IN  structure' = Some([structure[1] EXCEPT
               !.joists = @ \o GenerateJoists(si, frame),
               !.notes = Append(@, [kind |-> "joists_total",
                                    num_joists |-> NumJoists(frame)]),
               !.ledger = IF ledger # None THEN ledger ELSE @,
               !.rim_joists = GenerateRimJoists(frame)])
  /\ frame' = Bind(frame, "num_joists", NumJoists(frame))
  /\ pc' = "returned"
  /\ UNCHANGED <<site_input, raised, quote, pdf, parked, tables, probe>>

GenerateStep ==
  \/ ValidateCantilever
  \/ SelectJoist
  \/ SelectBeam
  \/ SelectPost
  \/ FootingSize
  \/ GenerateSupports
  \/ GenerateFraming

----------------------------------------------------------------------------
(* generate_structure as one function of its argument: what an invocation  *)
(* that runs alone, from line 145 to its return, hands back.  Return(s)    *)
(* for a returned DeckStructure s, [ok |-> FALSE, ..] for an exception.    *)

\* lines 275-330, for the structure s populated so far
FramingOf(si, fr, s) ==
  LET ledger == GenerateLedger(si, fr)
  IN  [s EXCEPT
         !.joists = @ \o GenerateJoists(si, fr),
         !.notes = Append(@, [kind |-> "joists_total", num_joists |-> NumJoists(fr)]),
         !.ledger = IF ledger # None THEN ledger ELSE @,
         !.rim_joists = GenerateRimJoists(fr)]

\* lines 217-273, for the structure s populated so far
SupportsOf(si, fr, s) ==
  LET post_height_q == fr.beam_bottom_z
      post_size == _select_post_size(post_height_q)
      engineer == post_height_q > FtToQ(DictGet(tables.POST_HEIGHT_LIMITS, post_size, 8))
      tributary_area_sqin == fr.actual_beam_span_in * fr.joist_span_in
      footing_diameter ==
        _calculate_footing_diameter(tributary_area_sqin, si.soil_bearing_psf)
      fr1 == [post_height_q |-> post_height_q, post_size |-> post_size,
              post_lumber |-> tables.LUMBER_SPECS[post_size],
              tributary_area_sqin |-> tributary_area_sqin,
              footing_diameter |-> footing_diameter] @@ fr
      ys == BeamYPositions(si, fr1)
      s1 == [s EXCEPT
               !.post_size = post_size,
               !.footing_diameter_in = footing_diameter,
               !.notes = @ \o
                 << [kind |-> "posts", size |-> post_size,
                     height_tenths |-> Fmt1(post_height_q, 48),
                     verify_with_engineer |-> engineer],
                    [kind |-> "footings", diameter_in |-> footing_diameter,
                     depth_in |-> si.frost_depth_in,
                     tributary_sf |-> Fmt0(tributary_area_sqin, 144)] >>,
               !.footings = @ \o GenerateFootings(si, fr1, ys),
               !.posts = @ \o GeneratePosts(si, fr1, ys),
               !.beams = @ \o GenerateBeams(fr1, ys)]
  IN  IF si.soil_bearing_psf = 0
      THEN [ok |-> FALSE, error |-> "ZeroDivisionError"]
      ELSE IF tributary_area_sqin * si.soil_bearing_psf < 0
      THEN [ok |-> FALSE, error |-> "ValueError"]
      ELSE Return(FramingOf(si, fr1, s1))

\* lines 189-215, then the rest
BeamOf(si, fr, s) ==
  LET lay == BeamLayout(fr)
      r == _select_beam_size(lay.actual_beam_span_in, fr.joist_span_in)
  IN  IF ~r.ok
      THEN LET h == HandleValueError(s, r.error)
           IN  IF h.raised = "none" THEN Return(h.structure)
               ELSE [ok |-> FALSE, error |-> h.raised]
      ELSE IF r.value[1] \notin DOMAIN tables.LUMBER_SPECS
      THEN [ok |-> FALSE, error |-> "KeyError"]
      ELSE LET beam_lumber == tables.LUMBER_SPECS[r.value[1]]
           IN  SupportsOf(si,
                 [beam_lumber_size |-> r.value[1], beam_ply |-> r.value[2],
                  beam_lumber |-> beam_lumber,
                  beam_bottom_z |-> lay.beam_top_z - beam_lumber.height_q]
                 @@ lay @@ fr,
                 [s EXCEPT
                    !.beam_size = r.value[1],
                    !.beam_ply = r.value[2],
                    !.notes = Append(@, [kind |-> "beam",
                                         ply |-> r.value[2], size |-> r.value[1],
                                         span_tenths |-> Fmt1(lay.actual_beam_span_in, 12),
                                         num_posts |-> lay.num_posts])])

\* lines 133-330
generate_structure(si) ==
  LET depth_in == FtToIn(si.depth_ft)
      pol == CantileverPolicy(depth_in, si.ledger_attachment)
      fr == [width_in |-> FtToIn(si.width_ft), depth_in |-> depth_in,
             height_q |-> FtToQ(si.height_ft), joist_spacing_in |-> 16,
             cantilever_in |-> pol.cantilever_in,
             joist_span_in |-> pol.joist_span_in,
             beam_count |-> pol.beam_count]
      s == [DeckStructure(si) EXCEPT !.joist_spacing_in = 16]
      r == _select_joist_size(fr.joist_span_in, fr.joist_spacing_in)
  IN  IF fr.cantilever_in * 100 > fr.depth_in * MAX_CANTILEVER_RATIO_PCT
      THEN Return(RecordError(s,
             [kind |-> "cantilever_exceeded",
              cantilever_tenths |-> Fmt1(fr.cantilever_in, 12),
              max_tenths |-> Fmt1(fr.depth_in * MAX_CANTILEVER_RATIO_PCT, 1200),
              depth_tenths |-> Fmt1(fr.depth_in, 12)]))
      ELSE IF ~r.ok
      THEN LET h == HandleValueError(s, r.error)
           IN  IF h.raised = "none" THEN Return(h.structure)
               ELSE [ok |-> FALSE, error |-> h.raised]
      ELSE IF r.value \notin DOMAIN tables.LUMBER_SPECS
      THEN [ok |-> FALSE, error |-> "KeyError"]
      ELSE BeamOf(si,
             Bind(Bind(fr, "joist_size", r.value),
                  "joist_lumber", tables.LUMBER_SPECS[r.value]),
             [s EXCEPT
                !.joist_size = r.value,
                !.notes = Append(@, [kind |-> "joists", size |-> r.value,
                                     spacing_in |-> fr.joist_spacing_in,
                                     span_tenths |-> Fmt1(fr.joist_span_in, 12)])])

----------------------------------------------------------------------------
(* Two invocations of generate_structure in one process.  An invocation's  *)
(* site_input argument, structure, local variables and pending exception   *)
(* are its own (lines 133, 145-153); the module-level dicts are shared.    *)
(* pc, site_input, structure, frame and raised hold the invocation that is *)
(* running, parked holds the other one, and the scheduler may switch       *)
(* between them before any block.                                          *)

\* the running invocation's state, saved under its id
RunningContext ==
  [id |-> 3 - parked.id, pc |-> pc, site_input |-> site_input,
   structure |-> structure, frame |-> frame, raised |-> raised]

\* Resume with the local variables shared by the two invocations (module
\* globals instead of locals): the resumed invocation finds the other's
ResumeSharedLocals(ctx) == [ctx EXCEPT !.frame = frame]

\* the state an invocation resumes with: what it was suspended with
Resume(ctx) == ctx

\* the scheduler suspends the running invocation and resumes the other
Switch ==
  /\ LET r == Resume(parked)
     IN  /\ pc' = r.pc
         /\ site_input' = r.site_input
         /\ structure' = r.structure
         /\ frame' = r.frame
         /\ raised' = r.raised
  /\ parked' = RunningContext
  /\ UNCHANGED <<quote, pdf, tables, probe>>

\* the inputs explored for two invocations
PairWidthStepFt == 8
MaxPairWidthSteps == 1
PairDepthStepFt == 10
MaxPairDepthSteps == 3

PairInputs ==
  {SiteInput(PairWidthStepFt * w, PairDepthStepFt * d, 1 + HeightStepFt, a,
             SoilStepPsf) :
     w \in 1..MaxPairWidthSteps, d \in 1..MaxPairDepthSteps,
     a \in LedgerAttachment}

\* a caller invokes generate_structure, the other invocation being anywhere
CallPair ==
  /\ pc = "idle"
  /\ \E si \in PairInputs : Invoke(si)

NextInterleaved ==
  \/ CallPair
  \/ GenerateStep
  \/ Switch

SpecInterleaved == Init /\ [][NextInterleaved]_vars

----------------------------------------------------------------------------
(* services/pricing.py: calculate_quote                                   *)
(* The quote is modelled by its line items (category, quantity, labor cost *)
(* in cents) and its labor subtotal; the material amounts, which multiply  *)
(* floating-point prices, are left out.  Quantities are in the model's     *)
(* units (inches for linear feet).                                         *)

LineItem(category, quantity, labor_cost_cents) ==
  [category |-> category, quantity |-> quantity,
   labor_cost_cents |-> labor_cost_cents]

RECURSIVE SumSeq(_)
SumSeq(s) == IF s = <<>> THEN 0 ELSE Head(s) + SumSeq(Tail(s))

\* LABOR_RATES, cents
LABOR_footing_each == 17500
LABOR_framing_sqft == 1400
LABOR_decking_composite_sqft == 900
LABOR_decking_wood_sqft == 700
LABOR_railing_lf == 3500
LABOR_stairs_tread_each == 22500
LABOR_permit_filing == 25000
LABOR_cleanup_sqft == 50

calculate_quote(s) ==
  LET site == s.input
      width_in == FtToIn(site.width_ft)
      depth_in == FtToIn(site.depth_ft)
      sqft == site.width_ft * site.depth_ft
      footing_count == Len(s.footings)
      beam_lf == SumSeq([k \in 1..Len(s.beams) |->
                           (s.beams[k].x_end_in - s.beams[k].x_start_in) * s.beams[k].ply])
      joist_lf == SumSeq([k \in 1..Len(s.joists) |->
                            s.joists[k].y_end_in - s.joists[k].y_start_in])
      ledger_lf == IF s.ledger # None THEN width_in ELSE 0
      rim_lf == (depth_in * 2) + width_in
      is_composite == site.decking_type \in {"trex", "timbertech"}
      items ==
        << LineItem("Footings", footing_count, footing_count * LABOR_footing_each),
           LineItem("Posts", Len(s.posts), 0),
           LineItem("Beams", beam_lf, 0),
           LineItem("Joists", joist_lf, 0),
           LineItem("Ledger & Rim", ledger_lf + rim_lf, 0),
           LineItem("Framing Labor", sqft, sqft * LABOR_framing_sqft),
           LineItem("Decking", sqft,
                    sqft * (IF is_composite THEN LABOR_decking_composite_sqft
                                            ELSE LABOR_decking_wood_sqft)) >>
        \o (IF site.railing_type # "none" /\ site.railing_lf > 0
            THEN <<LineItem("Railing", site.railing_lf, site.railing_lf * LABOR_railing_lf)>>
            ELSE <<>>)
        \o (IF site.stair_count > 0
            THEN <<LineItem("Stairs", site.stair_count,
                            site.stair_count * LABOR_stairs_tread_each)>>
            ELSE <<>>)
        \o << LineItem("Cleanup", sqft, sqft * LABOR_cleanup_sqft),
              LineItem("Permits", 1, LABOR_permit_filing) >>
  IN  [line_items |-> items,
       labor_subtotal_cents |-> SumSeq([k \in 1..Len(items) |-> items[k].labor_cost_cents]),
       deck_sqft |-> sqft]

\* a caller hands the returned structure to calculate_quote
CalculateQuote ==
  /\ pc = "returned"
  /\ quote = None
  /\ quote' = Some(calculate_quote(structure[1]))
  /\ UNCHANGED <<pc, site_input, structure, frame, raised, pdf, parked, tables, probe>>

----------------------------------------------------------------------------
(* services/permit_pdf.py: PermitPDFGenerator.generate                     *)
(* The document is modelled by what is drawn on each sheet.                *)

\* _draw_framing_plan, lines 122-259
_draw_framing_plan(s) ==
  [title |-> "FRAMING PLAN",
   border |-> TRUE, title_block |-> TRUE, outline |-> TRUE,
   ledger_lines |-> IF s.ledger # None THEN 1 ELSE 0,
   joist_lines |-> Len(s.joists),
   spacing_callout |-> Len(s.joists) >= 2,
   beam_lines |-> Len(s.beams),
   footing_circles |-> Len(s.footings),
   dimensions |-> 2,
   notes |-> 7]

\* _draw_section_and_details, lines 261-409
_draw_section_and_details(s) ==
  LET complete == /\ s.joists # <<>>
                  /\ s.beams # <<>>
                  /\ s.posts # <<>>
                  /\ s.footings # <<>>
  IN  [title |-> "TYPICAL SECTION",
       border |-> TRUE, title_block |-> TRUE,
       section |-> complete,
       notes |-> IF complete THEN 10 ELSE 0]

\* generate, lines 47-59
generate(s) ==
  [sheets |-> <<_draw_framing_plan(s), _draw_section_and_details(s)>>,
   saved |-> TRUE]

\* a caller hands the returned structure to generate_permit_pdf, lines 462-465
GeneratePermitPdf ==
  /\ pc = "returned"
  /\ pdf = None
  /\ pdf' = Some(generate(structure[1]))
  /\ UNCHANGED <<pc, site_input, structure, frame, raised, quote, parked, tables, probe>>

----------------------------------------------------------------------------

Next ==
  \/ Call
  \/ GenerateStep
  \/ CalculateQuote
  \/ GeneratePermitPdf

Spec == Init /\ [][Next]_vars

----------------------------------------------------------------------------
(* The selectors called directly, on spans and heights that no SiteInput   *)
(* of the grid above produces and at every tabulated joist spacing.        *)

\* spans probed are 0 .. MaxProbeSpanIn inches
MaxProbeSpanIn == 264
\* post heights probed are 0 .. MaxProbeHeightQ quarter inches
MaxProbeHeightQ == 1000

\* the joist spacings JOIST_SPANS tabulates: 12, 16, 24
Spacings == {k[2] : k \in DOMAIN JOIST_SPANS}

Call_select_joist_size ==
  /\ pc = "idle" /\ probe = None
  /\ \E span_in \in 0..MaxProbeSpanIn, spacing_in \in Spacings :
       probe' = Some([fn |-> "_select_joist_size",
                      span_in |-> span_in, spacing_in |-> spacing_in,
                      result |-> _select_joist_size(span_in, spacing_in)])
  /\ UNCHANGED <<pc, site_input, structure, frame, raised, quote, pdf,
                 parked, tables>>

Call_select_beam_size ==
  /\ pc = "idle" /\ probe = None
  /\ \E beam_span_in \in 0..MaxProbeSpanIn, joist_span_in \in 0..MaxProbeSpanIn :
       probe' = Some([fn |-> "_select_beam_size",
                      beam_span_in |-> beam_span_in,
                      joist_span_in |-> joist_span_in,
                      result |-> _select_beam_size(beam_span_in, joist_span_in)])
  /\ UNCHANGED <<pc, site_input, structure, frame, raised, quote, pdf,
                 parked, tables>>

Call_select_post_size ==
  /\ pc = "idle" /\ probe = None
  /\ \E height_q \in 0..MaxProbeHeightQ :
       probe' = Some([fn |-> "_select_post_size",
                      height_q |-> height_q,
                      result |-> _select_post_size(height_q)])
  /\ UNCHANGED <<pc, site_input, structure, frame, raised, quote, pdf,
                 parked, tables>>

\* the harness either runs the engine or calls one selector
NextSelectors ==
  \/ probe = None /\ Next
  \/ Call_select_joist_size
  \/ Call_select_beam_size
  \/ Call_select_post_size

SpecSelectors == Init /\ [][NextSelectors]_vars


----------------------------------------------------------------------------
(* Properties.                                                             *)

\* the invocation has returned its DeckStructure
Returned == pc = "returned"
\* the returned structure and the input it was generated from
S == structure[1]
In == site_input[1]
Attached == In.ledger_attachment # FREESTANDING

\* the geometry sequences of a structure are all empty
NoGeometry(s) ==
  /\ s.footings = <<>>
  /\ s.posts = <<>>
  /\ s.beams = <<>>
  /\ s.joists = <<>>

\* C1: a structure returned with compliant = false carries an error, and
\* generation stopped at the failing step: the failing selector's size field
\* and those of every later step hold their defaults, the locals of the
\* later steps were never bound, and no footing, post, beam or joist was
\* generated.
C1_HaltAtFirstFailure ==
  (Returned /\ ~S.compliant) =>
    /\ S.errors # <<>>
    /\ NoGeometry(S)
    /\ S.post_size = "" /\ S.footing_diameter_in = 12
    /\ S.beam_size = "" /\ S.beam_ply = 2
    /\ ~Bound("beam_lumber") /\ ~Bound("post_size") /\ ~Bound("footing_diameter")
    /\ ~Bound("beam_y_positions") /\ ~Bound("num_joists")
    /\ S.errors[1].kind = "joist_span_exceeded" =>
         /\ S.joist_size = "" /\ S.notes = <<>>
         /\ ~Bound("joist_lumber") /\ ~Bound("num_posts")
    /\ S.errors[1].kind = "beam_span_exceeded" =>
         /\ S.joist_size # "" /\ Len(S.notes) = 1

\* a beam-selector failure: the joist step ran, the later ones did not
C1_Witness ==
  /\ Returned /\ ~S.compliant
  /\ S.errors # <<>> /\ S.errors[1].kind = "beam_span_exceeded"
  /\ S.joist_size = "2x10"

\* C4: no exception escapes generate_structure: every invocation runs on
\* until it returns, and a selector that raises SpanExceeded leaves its
\* message in errors with compliant = false.
C4_NoExceptionEscapes ==
  /\ raised = "none" /\ pc # "raised"
  /\ pc \notin {"idle", "returned"} => ENABLED GenerateStep
  /\ Returned =>
       LET rj == _select_joist_size(frame.joist_span_in, 16)
       IN  /\ ~rj.ok => /\ ~S.compliant
                        /\ S.errors = <<rj.error>>
           /\ rj.ok =>
                LET rb == _select_beam_size(frame.actual_beam_span_in,
                                            frame.joist_span_in)
                IN  /\ ~rb.ok => /\ ~S.compliant
                                 /\ S.errors = <<rb.error>>
                    /\ rb.ok => S.compliant /\ S.errors = <<>>

\* a joist-selector failure that was caught and reported
C4_Witness ==
  /\ Returned /\ raised = "none"
  /\ ~S.compliant
  /\ S.errors # <<>> /\ S.errors[1].kind = "joist_span_exceeded"


\* C2: in every compliant structure the elevations are ordered: decking top
\* >= joist top > joist bottom = beam top > beam bottom = post height > 0
\* (grade) > footing bottom, and every post has a height > 0.
C2_ElevationOrdering ==
  (Returned /\ S.compliant) =>
    LET decking_top == FtToQ(In.height_ft)
        joist_bottom == S.joists[1].z_q
        joist_top == joist_bottom + S.joists[1].lumber.height_q
        beam_bottom == S.beams[1].z_q
        beam_top == beam_bottom + S.beams[1].lumber.height_q
    IN  /\ decking_top >= joist_top
        /\ joist_top > joist_bottom
        /\ joist_bottom = beam_top
        /\ beam_top > beam_bottom
        /\ \A k \in 1..Len(S.posts) :
             /\ S.posts[k].height_q = beam_bottom
             /\ S.posts[k].height_q > 0
        /\ \A k \in 1..Len(S.footings) : 0 > -S.footings[k].depth_in

\* the required diameter 2*sqrt(A/pi), A = area * 55 psf / soil in square
\* inches, is at most d inches
RequiredDiameterAtMost(d, area_sqin, soil_psf) ==
  d * d * soil_psf * PiNum >= 4 * (DEAD_LOAD_PSF + LIVE_LOAD_PSF) * area_sqin * PiDen

\* d is the smallest standard diameter that is >= the required diameter
SmallestStandardCovering(d, area_sqin, soil_psf) ==
  /\ d \in {12, 14, 16, 18, 20, 24}
  /\ RequiredDiameterAtMost(d, area_sqin, soil_psf)
  /\ \A e \in {12, 14, 16, 18, 20, 24} :
       e < d => ~RequiredDiameterAtMost(e, area_sqin, soil_psf)

\* the tributary area of a returned compliant structure, square inches:
\* post-to-post distance along a row times the joist span
TributaryAreaSqIn ==
  (S.footings[2].x_in - S.footings[1].x_in) * frame.joist_span_in

\* C3 as stated: in every compliant structure the footing diameter is the
\* smallest standard diameter >= the required diameter.
C3_FootingRoundUp ==
  (Returned /\ S.compliant) =>
    SmallestStandardCovering(S.footing_diameter_in, TributaryAreaSqIn,
                             In.soil_bearing_psf)

\* C3, amended: that holds whenever the required diameter is at most 24 in;
\* when it exceeds 24 in the structure carries 24 in footings, smaller than
\* required.
C3_FootingRoundUpOrClamp ==
  (Returned /\ S.compliant) =>
    /\ S.footing_diameter_in = frame.footing_diameter
    /\ \A k \in 1..Len(S.footings) :
         S.footings[k].diameter_in = S.footing_diameter_in
    /\ IF RequiredDiameterAtMost(24, TributaryAreaSqIn, In.soil_bearing_psf)
       THEN SmallestStandardCovering(S.footing_diameter_in, TributaryAreaSqIn,
                                     In.soil_bearing_psf)
       ELSE S.footing_diameter_in = 24

\* a proper round-up: 14 in does not suffice, 16 in does
C3_Witness ==
  /\ Returned /\ S.compliant
  /\ S.footing_diameter_in = 16
  /\ ~RequiredDiameterAtMost(14, TributaryAreaSqIn, In.soil_bearing_psf)

\* size is the smallest joist size whose tabulated maximum span at 16 in
\* on center is >= num/den inches
SmallestJoistFor(size, num, den) ==
  \E i \in 1..Len(JoistSizes) :
    /\ JoistSizes[i] = size
    /\ JOIST_SPANS[<<size, 16>>] * 12 * den >= num * 100
    /\ \A j \in 1..(i - 1) :
         JOIST_SPANS[<<JoistSizes[j], 16>>] * 12 * den < num * 100

\* C5: in direct or standoff mode the cantilever is min(2 ft, depth / 4), so
\* never more than depth / 4; the joists are sized for depth - cantilever;
\* and a compliant structure has one beam row, at y = depth - cantilever.
C5_AttachedCantilever ==
  (pc # "idle" /\ Attached) =>
    LET depth_in == FtToIn(In.depth_ft)
        c == frame.cantilever_in
    IN  /\ 4 * c <= depth_in
        /\ c <= FtToIn(2)
        /\ c = FtToIn(2) \/ 4 * c = depth_in
        /\ frame.joist_span_in = depth_in - c
        /\ S.joist_size # "" => SmallestJoistFor(S.joist_size, depth_in - c, 1)
        /\ (Returned /\ S.compliant) =>
             /\ Len(S.beams) = 1
             /\ S.beams[1].y_in = depth_in - c
             /\ Len(S.footings) = frame.num_posts
             /\ Len(S.posts) = frame.num_posts
             /\ \A k \in 1..Len(S.footings) :
                  /\ S.footings[k].y_in = depth_in - c
                  /\ S.posts[k].y_in = depth_in - c

\* a 4 ft deep attached deck: cantilever 1 ft, joists sized for 3 ft
C5_Witness ==
  /\ Returned /\ S.compliant /\ Attached
  /\ In.depth_ft = 4
  /\ frame.cantilever_in = 12
  /\ S.beams[1].y_in = 36

C7_LedgerIffAttached ==
  Returned => (S.ledger # None <=> Attached)

\* C7, amended: a returned structure has a ledger iff it is compliant and
\* the attachment mode is not freestanding; the ledger then spans the width
\* at y = 0 and carries the attachment mode.
C7_LedgerIffAttachedAndCompliant ==
  Returned =>
    /\ S.ledger # None <=> (S.compliant /\ Attached)
    /\ S.ledger # None =>
         /\ S.ledger[1].attachment = In.ledger_attachment
         /\ S.ledger[1].y_in = 0
         /\ S.ledger[1].x_end_in - S.ledger[1].x_start_in = FtToIn(In.width_ft)

\* a compliant freestanding structure, without a ledger
C7_Witness ==
  /\ Returned /\ S.compliant /\ ~Attached
  /\ S.ledger = None /\ S.rim_joists # <<>>

\* the three rim joists of a width x depth deck, in joist lumber
ThreeRimJoists(s, width_in, depth_in) ==
  /\ Len(s.rim_joists) = 3
  /\ s.rim_joists[1].location = "left"
  /\ 2 * s.rim_joists[1].x_in = -width_in
  /\ s.rim_joists[1].y_start_in = 0 /\ s.rim_joists[1].y_end_in = depth_in
  /\ s.rim_joists[2].location = "right"
  /\ 2 * s.rim_joists[2].x_in = width_in
  /\ s.rim_joists[2].y_start_in = 0 /\ s.rim_joists[2].y_end_in = depth_in
  /\ s.rim_joists[3].location = "outer"
  /\ s.rim_joists[3].y_in = depth_in
  /\ 2 * s.rim_joists[3].x_start_in = -width_in
  /\ 2 * s.rim_joists[3].x_end_in = width_in
  /\ \A k \in 1..3 : s.rim_joists[k].lumber.nominal = s.joist_size

\* C8 as stated: every returned structure has exactly three rim joists,
\* left, right and outer, in the selected joist lumber.
C8_ThreeRimJoists ==
  Returned => ThreeRimJoists(S, FtToIn(In.width_ft), FtToIn(In.depth_ft))

\* C8, amended: every compliant returned structure has exactly those three
\* rim joists; a non-compliant one has none.
C8_ThreeRimJoistsIfCompliant ==
  Returned =>
    IF S.compliant
    THEN ThreeRimJoists(S, FtToIn(In.width_ft), FtToIn(In.depth_ft))
    ELSE S.rim_joists = <<>>

\* a compliant structure with its three rim joists in 2x8
C8_Witness ==
  /\ Returned /\ S.compliant
  /\ Len(S.rim_joists) = 3
  /\ S.rim_joists[3].location = "outer"
  /\ S.rim_joists[3].lumber.nominal = "2x8"

\* C9: calculate_quote prices no structure with compliant = false: it
\* produces no line items and no amount for it.
C9_DoNotQuote ==
  (quote # None /\ ~S.compliant) =>
    /\ quote[1].line_items = <<>>
    /\ quote[1].labor_subtotal_cents = 0

\* C10: the permit generator renders no structure whose errors are
\* non-empty: it draws no sheet and saves no document for it.
C10_NotRenderable ==
  (pdf # None /\ S.errors # <<>>) =>
    /\ pdf[1].sheets = <<>>
    /\ ~pdf[1].saved

\* C14: joist symmetry.  In every compliant structure the joist count is
\* floor(width / (spacing_in / 12)) + 1, neighbouring joists are spacing_in
\* apart, and the k-th joist from the left and the k-th from the right lie
\* at x-positions of equal magnitude and opposite sign.
C14_JoistSymmetry ==
  (Returned /\ S.compliant) =>
    LET n == Len(S.joists)
    IN  /\ n = Floor(FtToIn(In.width_ft), S.joist_spacing_in) + 1
        /\ \A k \in 1..(n - 1) :
             S.joists[k + 1].x_in - S.joists[k].x_in = S.joist_spacing_in
        /\ \A k \in 1..n :
             S.joists[k].x_in + S.joists[n + 1 - k].x_in = 0

\* a 10 ft wide deck: 8 joists from x = -56 in to x = +56 in, the rim
\* joists at -60 in and +60 in
C14_Witness ==
  /\ Returned /\ S.compliant
  /\ In.width_ft = 10
  /\ Len(S.joists) = 8
  /\ S.joists[1].x_in = -56 /\ S.joists[8].x_in = 56

\* max(2, ceil(width / 8) + 1) for a width in whole feet
PostCountFor(width_ft) ==
  IF width_ft <= 8 THEN 2 ELSE ((width_ft + 7) \div 8) + 1

\* C18: the post count per beam row is max(2, ceil(width / 8) + 1); the
\* actual beam span is width / (post count - 1), at most 8 ft, and
\* subdivides the width evenly; the posts and footings of a row lie at
\* x = -width/2 + i * span, the first at -width/2, the last at +width/2.
C18_PostSpacing ==
  /\ Bound("num_posts") =>
       /\ frame.num_posts = PostCountFor(In.width_ft)
       /\ frame.actual_beam_span_in * (frame.num_posts - 1) = 12 * In.width_ft
       /\ frame.actual_beam_span_in <= 8 * 12
  /\ (Returned /\ S.compliant) =>
       LET n == PostCountFor(In.width_ft)
           rows == IF Attached THEN 1 ELSE 2
       IN  /\ Len(S.posts) = rows * n /\ Len(S.footings) = rows * n
           /\ \A row \in 0..(rows - 1) :
                /\ 2 * S.posts[row * n + 1].x_in = -12 * In.width_ft
                /\ 2 * S.posts[row * n + n].x_in = 12 * In.width_ft
                /\ \A i \in 0..(n - 1) :
                     /\ (n - 1) * (S.posts[row * n + i + 1].x_in
                                     - S.posts[row * n + 1].x_in)
                          = i * 12 * In.width_ft
                     /\ S.footings[row * n + i + 1].x_in
                          = S.posts[row * n + i + 1].x_in

\* a 17 ft wide deck: 4 posts per row, 68 in (5.67 ft) apart, from
\* x = -102 in to x = +102 in
C18_Witness ==
  /\ Returned /\ S.compliant
  /\ In.width_ft = 17
  /\ frame.num_posts = 4 /\ frame.actual_beam_span_in = 68
  /\ S.posts[1].x_in = -102 /\ S.posts[2].x_in = -34 /\ S.posts[4].x_in = 102

\* C19: in every compliant structure the footing diameter is the smallest
\* of 12, 14, 16, 18, 20, 24 that is >= 2 * sqrt(A / pi), where A is
\* (actual beam span x joist span) x 55 psf / soil bearing capacity in
\* square inches, and 24 when the required diameter exceeds 24; neither
\* case adds an error; 80 sq ft at 1500 psf gives 24.
C19_FootingDiameter ==
  (Returned /\ S.compliant) =>
    LET area_sqin == frame.actual_beam_span_in * frame.joist_span_in
        soil == In.soil_bearing_psf
        d == S.footing_diameter_in
    IN  /\ IF RequiredDiameterAtMost(24, area_sqin, soil)
           THEN SmallestStandardCovering(d, area_sqin, soil)
           ELSE d = 24
        /\ S.errors = <<>>
        /\ \E k \in 1..Len(S.notes) :
             /\ S.notes[k].kind = "footings"
             /\ S.notes[k].diameter_in = d
        /\ (area_sqin = 80 * 144 /\ soil = 1500) => d = 24

\* 8 ft beam span x 10 ft joist span = 80 sq ft at 1500 psf: 23.2 in
\* required, 20 in too small, 24 in footings
C19_Witness ==
  /\ Returned /\ S.compliant
  /\ frame.actual_beam_span_in = 96 /\ frame.joist_span_in = 120
  /\ In.soil_bearing_psf = 1500
  /\ ~RequiredDiameterAtMost(20, 80 * 144, 1500)
  /\ RequiredDiameterAtMost(24, 80 * 144, 1500)
  /\ S.footing_diameter_in = 24 /\ S.footings[1].diameter_in = 24

\* C20: in every compliant structure the members are in generation order:
\* footings and posts beam row by beam row and, within a row, by strictly
\* increasing x; footings[k] and posts[k] share (x, y); there are
\* rows x post count of each (1 row attached, 2 freestanding); one Beam per
\* row spans x = -width/2 .. +width/2 at the beam-bottom elevation; the
\* joists are listed by strictly increasing x, each spanning y = 0 .. depth
\* at the joist-bottom elevation.
C20_GenerationOrder ==
  (Returned /\ S.compliant) =>
    LET n == frame.num_posts
        rows == IF Attached THEN 1 ELSE 2
        joist_bottom_q == 48 * In.height_ft - 4 - LUMBER_SPECS[S.joist_size].height_q
        beam_bottom_q == joist_bottom_q - LUMBER_SPECS[S.beam_size].height_q
    IN  /\ Len(S.footings) = rows * n /\ Len(S.posts) = rows * n
        /\ \A k \in 1..Len(S.posts) :
             /\ S.footings[k].x_in = S.posts[k].x_in
             /\ S.footings[k].y_in = S.posts[k].y_in
             /\ S.posts[k].y_in = S.beams[((k - 1) \div n) + 1].y_in
             /\ k % n # 0 => S.posts[k].x_in < S.posts[k + 1].x_in
        /\ Len(S.beams) = rows
        /\ \A r \in 1..rows :
             /\ 2 * S.beams[r].x_start_in = -12 * In.width_ft
             /\ 2 * S.beams[r].x_end_in = 12 * In.width_ft
             /\ S.beams[r].z_q = beam_bottom_q
             /\ r < rows => S.beams[r].y_in < S.beams[r + 1].y_in
        /\ S.joists # <<>>
        /\ \A k \in 1..Len(S.joists) :
             /\ S.joists[k].y_start_in = 0
             /\ S.joists[k].y_end_in = 12 * In.depth_ft
             /\ S.joists[k].z_q = joist_bottom_q
             /\ k < Len(S.joists) => S.joists[k].x_in < S.joists[k + 1].x_in

\* a freestanding deck with three posts per row: footings 1..3 along the
\* first beam row, 4..6 along the second
C20_Witness ==
  /\ Returned /\ S.compliant /\ ~Attached
  /\ frame.num_posts = 3 /\ Len(S.footings) = 6
  /\ S.footings[3].y_in = S.beams[1].y_in
  /\ S.footings[4].y_in = S.beams[2].y_in
  /\ S.footings[4].x_in = S.footings[1].x_in
  /\ S.footings[4].x_in < S.footings[5].x_in

----------------------------------------------------------------------------
(* Two invocations.                                                        *)

\* the state of the invocation with that id, running or suspended
Invocation(id) == IF parked.id = id THEN parked ELSE RunningContext

NonInterference ==
  /\ tables' = tables
  /\ \A id \in {1, 2} :
       /\ (parked.id = id /\ parked'.id = id) => Invocation(id)' = Invocation(id)
       /\ parked'.id # parked.id => Invocation(id)' = Invocation(id)
       /\ Invocation(id).pc # "idle" =>
            /\ Invocation(id)'.site_input = Invocation(id).site_input
            /\ Invocation(id)'.structure[1].input = Invocation(id).site_input[1]

\* every invocation that has returned has returned what generate_structure
\* returns for its argument when it runs alone
ReturnsAsAlone ==
  \A id \in {1, 2} :
    Invocation(id).pc = "returned" =>
      Return(Invocation(id).structure[1])
        = generate_structure(Invocation(id).site_input[1])

\* C12: in any interleaving of two invocations each one returns the
\* DeckStructure it returns when run alone; a step of one invocation writes
\* only that invocation's own state, never the other's, never LUMBER_SPECS,
\* JOIST_SPANS, BEAM_SPANS or POST_HEIGHT_LIMITS, and never its SiteInput.
C12_Interleaving ==
  []ReturnsAsAlone /\ [][NonInterference]_vars

\* an invocation has returned a non-compliant structure while the other,
\* called before it on another input, is suspended half-way
C12_Witness ==
  /\ pc = "returned" /\ ~structure[1].compliant
  /\ parked.id = 1 /\ parked.pc = "select_post"
  /\ parked.site_input # site_input
  /\ parked.structure[1].notes # <<>>

----------------------------------------------------------------------------
(* The selectors.                                                          *)

\* a direct call of that selector has been made
Probed(fn) == probe # None /\ probe[1].fn = fn

\* the place of a joist size in the order 2x6 < 2x8 < 2x10 < 2x12
JoistRank(size) == CHOOSE i \in 1..Len(JoistSizes) : JoistSizes[i] = size

\* C13: monotonic joist selection.  At each spacing of 12, 16 and 24 in and
\* for any two spans A > B, the size selected for A is not smaller than the
\* size selected for B, and if selection fails for B it fails for A.
C13_MonotonicJoistSelection ==
  Probed("_select_joist_size") =>
    LET A == probe[1]
    IN  \A span_B \in 0..(A.span_in - 1) :
          LET B == _select_joist_size(span_B, A.spacing_in)
          IN  /\ (A.result.ok /\ B.ok) =>
                   JoistRank(A.result.value) >= JoistRank(B.value)
              /\ ~B.ok => ~A.result.ok

\* a 2x10 selected at 12 in on center for a span that 2x8 would not carry,
\* shorter spans selecting 2x6 and 2x8
C13_Witness ==
  /\ Probed("_select_joist_size")
  /\ probe[1].spacing_in = 12 /\ probe[1].span_in = 180
  /\ probe[1].result = Return("2x10")
  /\ _select_joist_size(120, 12) = Return("2x6")

\* the tabulated maximum span of a joist size at a spacing carries span_in
JoistCarries(size, spacing_in, span_in) ==
  JOIST_SPANS[<<size, spacing_in>>] * 12 >= span_in * 100

\* what selecting a joist for span_in at spacing_in must give: the smallest
\* of 2x6 .. 2x12 that carries the span, or the SpanExceeded error with the
\* 2x12 maximum at that spacing exactly when the span exceeds that maximum
JoistSelectionCorrect(r, span_in, spacing_in) ==
  /\ r.ok <=> JoistCarries("2x12", spacing_in, span_in)
  /\ r.ok =>
       /\ r.value \in {"2x6", "2x8", "2x10", "2x12"}
       /\ JoistCarries(r.value, spacing_in, span_in)
       /\ \A size \in {"2x6", "2x8", "2x10", "2x12"} :
            JoistRank(size) < JoistRank(r.value) =>
              ~JoistCarries(size, spacing_in, span_in)
  /\ ~r.ok =>
       r.error = [kind |-> "joist_span_exceeded",
                  span_tenths |-> Fmt1(span_in, 12),
                  spacing_in |-> spacing_in,
                  max_tenths |-> Fmt1(JOIST_SPANS[<<"2x12", spacing_in>>], 100)]

\* C15: for every span and each spacing of 12, 16 and 24 in,
\* _select_joist_size returns the smallest of 2x6, 2x8, 2x10, 2x12 whose
\* tabulated maximum is >= the span and fails with SpanExceeded, reporting
\* the 2x12 maximum at that spacing, exactly when the span exceeds that
\* maximum; in generate_structure that failure gives compliant = false and
\* one error naming the span, and a success gives the selected joist_size.
C15_JoistSelection ==
  /\ Probed("_select_joist_size") =>
       JoistSelectionCorrect(probe[1].result, probe[1].span_in, probe[1].spacing_in)
  /\ (Returned /\ probe = None) =>
       IF JoistCarries("2x12", 16, frame.joist_span_in)
       THEN /\ JoistSelectionCorrect(Return(S.joist_size), frame.joist_span_in, 16)
            /\ \A k \in 1..Len(S.errors) : S.errors[k].kind # "joist_span_exceeded"
       ELSE /\ ~S.compliant
            /\ S.joist_size = ""
            /\ S.errors = <<[kind |-> "joist_span_exceeded",
                             span_tenths |-> Fmt1(frame.joist_span_in, 12),
                             spacing_in |-> 16,
                             max_tenths |-> 195]>>

\* a direct call that fails at 24 in on center: 200 in (16.7 ft) exceeds
\* the 2x12 maximum of 16.5 ft
C15_Witness ==
  /\ Probed("_select_joist_size")
  /\ probe[1].spacing_in = 24 /\ probe[1].span_in = 200
  /\ ~probe[1].result.ok
  /\ probe[1].result.error.max_tenths = 165
  /\ probe[1].result.error.span_tenths = 167

\* the joist span category of the beam table: <= 6 ft, <= 8 ft, <= 10 ft,
\* otherwise 12
CategoryOf(joist_span_in) ==
  IF joist_span_in <= 72 THEN "6"
  ELSE IF joist_span_in <= 96 THEN "8"
  ELSE IF joist_span_in <= 120 THEN "10"
  ELSE "12"

\* the doubled beam of that size carries beam_span_in in that category
DoubledBeamCarries(size, cat, beam_span_in) ==
  BEAM_SPANS[<<"2-" \o size, cat>>] * 12 >= beam_span_in * 100

\* C16: _select_beam_size maps the joist span to category 6 / 8 / 10 / 12,
\* considers only the doubled configurations 2-2x6 .. 2-2x12 and returns
\* (size, 2) for the smallest size whose tabulated maximum in that category
\* is >= the beam span; it fails with SpanExceeded, naming the category,
\* exactly when the beam span exceeds the 2-2x12 entry of the category.
C16_BeamSelection ==
  Probed("_select_beam_size") =>
    LET r == probe[1].result
        beam_span_in == probe[1].beam_span_in
        cat == CategoryOf(probe[1].joist_span_in)
    IN  /\ r.ok <=> DoubledBeamCarries("2x12", cat, beam_span_in)
        /\ r.ok =>
             /\ r.value[2] = 2
             /\ r.value[1] \in {"2x6", "2x8", "2x10", "2x12"}
             /\ DoubledBeamCarries(r.value[1], cat, beam_span_in)
             /\ \A size \in {"2x6", "2x8", "2x10", "2x12"} :
                  JoistRank(size) < JoistRank(r.value[1]) =>
                    ~DoubledBeamCarries(size, cat, beam_span_in)
        /\ ~r.ok =>
             r.error = [kind |-> "beam_span_exceeded",
                        span_tenths |-> Fmt1(beam_span_in, 12),
                        joist_cat |-> cat]

\* joists spanning exactly 6 ft (category 6) on a 5.5 ft beam span: the
\* doubled 2x6, which category 8 would not allow
C16_Witness ==
  /\ Probed("_select_beam_size")
  /\ probe[1].joist_span_in = 72 /\ probe[1].beam_span_in = 66
  /\ probe[1].result = Return(<<"2x6", 2>>)

\* the post size for a height in quarter inches: 4x4 up to 8 ft, 4x6 up to
\* 14 ft, 6x6 above, within its 20 ft limit or not
PostSizeFor(height_q) ==
  IF height_q <= 8 * 48 THEN "4x4"
  ELSE IF height_q <= 14 * 48 THEN "4x6"
  ELSE "6x6"

\* the post height exceeds the 20 ft limit of the largest post
OverLimit(height_q) == height_q > 20 * 48

\* the notes of a structure that ask for an engineer
EngineerNotes(s) ==
  {k \in 1..Len(s.notes) :
     s.notes[k].kind = "posts" /\ s.notes[k].verify_with_engineer}

\* C17: post selection is a soft violation only.  _select_post_size
\* returns the smallest of 4x4 (8 ft), 4x6 (14 ft), 6x6 (20 ft) whose limit
\* is >= the post height, and 6x6 above 20 ft; in that case
\* generate_structure adds a 'verify with engineer' note, no error, leaves
\* compliant = true and generates the full geometry; the note appears in
\* no other case.
C17_PostSoftViolation ==
  /\ Probed("_select_post_size") =>
       probe[1].result = PostSizeFor(probe[1].height_q)
  /\ (Returned /\ probe = None) =>
       /\ ~S.compliant => EngineerNotes(S) = {}
       /\ S.compliant =>
            LET height_q == frame.post_height_q
            IN  /\ S.post_size = PostSizeFor(height_q)
                /\ \A k \in 1..Len(S.posts) :
                     /\ S.posts[k].height_q = height_q
                     /\ S.posts[k].lumber.nominal = S.post_size
                /\ Cardinality({k \in 1..Len(S.notes) : S.notes[k].kind = "posts"}) = 1
                /\ EngineerNotes(S) # {} <=> OverLimit(height_q)
                /\ OverLimit(height_q) =>
                     /\ S.post_size = "6x6"
                     /\ S.errors = <<>>
                     /\ S.footings # <<>> /\ S.posts # <<>>
                     /\ S.beams # <<>> /\ S.joists # <<>>
                     /\ Len(S.rim_joists) = 3

\* a 22 ft high deck: posts over 20 ft, 6x6, the engineer note, no error
\* and the geometry generated
C17_Witness ==
  /\ Returned /\ S.compliant
  /\ In.height_ft = 22
  /\ OverLimit(S.posts[1].height_q)
  /\ S.post_size = "6x6"
  /\ EngineerNotes(S) # {}
  /\ S.errors = <<>> /\ S.joists # <<>>

----------------------------------------------------------------------------
(* The shape of a returned structure.                                      *)

\* shape (a): compliant, no error, the three sizes set to catalog names,
\* every member sequence non-empty
SuccessShape(s) ==
  /\ s.compliant /\ s.errors = <<>>
  /\ s.joist_size \in DOMAIN LUMBER_SPECS
  /\ s.beam_size \in DOMAIN LUMBER_SPECS
  /\ s.post_size \in DOMAIN LUMBER_SPECS
  /\ s.footings # <<>> /\ s.posts # <<>> /\ s.beams # <<>>
  /\ s.joists # <<>> /\ s.rim_joists # <<>>

\* shape (b): not compliant, exactly one error, no member, no ledger
FailureShape(s) ==
  /\ ~s.compliant /\ Len(s.errors) = 1
  /\ s.footings = <<>> /\ s.posts = <<>> /\ s.beams = <<>>
  /\ s.joists = <<>> /\ s.rim_joists = <<>>
  /\ s.ledger = None

\* C21: every DeckStructure returned by generate_structure has exactly one
\* of two shapes: compliant with no error, all three sizes set and every
\* member sequence non-empty; or not compliant with exactly one error, no
\* member and no ledger.  None mixes an error with a generated member.
C21_TwoShapes ==
  Returned =>
    /\ SuccessShape(S) \/ FailureShape(S)
    /\ ~(SuccessShape(S) /\ FailureShape(S))
    /\ S.errors # <<>> =>
         /\ NoGeometry(S) /\ S.rim_joists = <<>> /\ S.ledger = None

\* a beam-selector failure: one error, the joist size already set, no
\* member generated
C21_Witness ==
  /\ Returned /\ FailureShape(S)
  /\ S.errors[1].kind = "beam_span_exceeded"
  /\ S.joist_size \in DOMAIN LUMBER_SPECS /\ S.beam_size = ""

----------------------------------------------------------------------------
(* The cantilever.                                                         *)

\* C22: the CantileverExceeded outcome is unreachable.  In no attachment
\* mode and for no depth > 0 does the cantilever validation fail: the
\* cantilever it is handed never exceeds 25% of the depth, so every
\* message that ever appears in errors is a SpanExceeded message of the
\* joist or the beam selector.
C22_CantileverExceededUnreachable ==
  /\ pc # "idle" =>
       /\ In.depth_ft > 0
       /\ frame.cantilever_in * 100 <= frame.depth_in * MAX_CANTILEVER_RATIO_PCT
       /\ structure # None =>
            \A k \in 1..Len(S.errors) :
              S.errors[k].kind \in {"joist_span_exceeded", "beam_span_exceeded"}
  /\ (pc = "select_joist") => (S.compliant /\ S.errors = <<>>)

\* the validation has passed a cantilever that sits exactly on the limit:
\* 1 ft on a 4 ft deep attached deck
C22_Witness ==
  /\ pc = "select_joist" /\ Attached
  /\ In.depth_ft = 4
  /\ frame.cantilever_in = 12
  /\ frame.cantilever_in * 4 = frame.depth_in
  /\ S.errors = <<>>

\* the largest and the smallest y of the beam rows of a structure
OutermostBeamY(s) ==
  CHOOSE y \in {s.beams[k].y_in : k \in 1..Len(s.beams)} :
    \A k \in 1..Len(s.beams) : s.beams[k].y_in <= y
InnermostBeamY(s) ==
  CHOOSE y \in {s.beams[k].y_in : k \in 1..Len(s.beams)} :
    \A k \in 1..Len(s.beams) : s.beams[k].y_in >= y

\* C23: in every compliant structure, in every attachment mode, the joists
\* overhang their outermost support (y_end minus the largest beam-row y)
\* by at most 25% of the depth, and overhang their innermost support on
\* the house side (the ledger at y = 0 if present, otherwise the smallest
\* beam-row y minus y_start) by at most 25% of the depth.
C23_GeometricOverhang ==
  (Returned /\ S.compliant) =>
    \A k \in 1..Len(S.joists) :
      LET outer == S.joists[k].y_end_in - OutermostBeamY(S)
          inner == IF S.ledger # None THEN 0
                   ELSE InnermostBeamY(S) - S.joists[k].y_start_in
      IN  /\ outer * 100 <= FtToIn(In.depth_ft) * MAX_CANTILEVER_RATIO_PCT
          /\ inner * 100 <= FtToIn(In.depth_ft) * MAX_CANTILEVER_RATIO_PCT

=============================================================================
